---- MODULE Spec2Model ----
(***************************************************************************)
(* Model of the DICOM Fixer service (src/app.py):                          *)
(*   - fix_single_dicom : the metadata normalizer,                         *)
(*   - fix_dicom_zip    : the batch endpoint (/dicom/fix),                 *)
(*   - nifti_to_dicom_zip : the volume slicer (/dicom/nifti-convert).      *)
(* A dataset is a function from the keywords it holds to their values;     *)
(* every value is a string, so that values of different elements compare.  *)
(***************************************************************************)
EXTENDS Naturals, Integers, Sequences, FiniteSets, TLC

VARIABLES
    pc,           \* position of the request being served
    clock,        \* the wall clock, in ticks
    uidNext,      \* number of identifiers generate_uid() has handed out
    r,            \* SpecFix: the record the normalizer was first given
    prev,         \* SpecFix: the record before the latest application
    ds,           \* SpecFix: the record after the latest application
    applied,      \* SpecFix: number of applications of fix_single_dicom
    dt,           \* the instant the latest fix_single_dicom read from the clock
    upload,       \* batch: what reading and extracting the upload does
    archive,      \* batch: the entries of the uploaded archive
    extracted,    \* batch: os.listdir(tmpdir) after extraction
    idx,          \* batch: position of the loop in `extracted`
    output_zip,   \* batch: entries written to the output archive so far
    total_files,  \* batch: counter of attempted items
    error_files,  \* batch: counter of failed items
    nifti,        \* volume: the uploaded file (name ending, what loading gives)
    study_uid,    \* volume: the study identifier shared by the slices
    series_uid,   \* volume: the series identifier shared by the slices
    i,            \* volume: index of the next slice
    zip_out,      \* volume: entries written to the output archive so far
    response,     \* what the endpoint answered ("none" while it runs)
    delivered     \* the archive entries the caller has received

fixVars == <<r, prev, ds, applied>>
batchVars == <<upload, archive, extracted, idx, output_zip, total_files, error_files>>
niftiVars == <<nifti, study_uid, series_uid, i, zip_out>>
vars == <<pc, clock, uidNext, dt, fixVars, batchVars, niftiVars, response, delivered>>

----------------------------------------------------------------------------
(* Bounds *)

MaxNull == 1
MaxClock == 1
TicksPerDay == 2
MaxItems == 2
MaxDim == 2
MaxSlices == 3

----------------------------------------------------------------------------
(* Values *)

\* An element that is present and holds no value (pydicom: None / "").
Null == ""

CTImageStorage == "1.2.840.10008.5.1.4.1.1.2"

UidFields == {"SOPInstanceUID", "StudyInstanceUID", "SeriesInstanceUID"}

Mandatory ==
    {"SOPClassUID", "SOPInstanceUID", "Modality", "PatientName", "PatientID",
     "StudyInstanceUID", "SeriesInstanceUID", "ImagePositionPatient",
     "ImageOrientationPatient", "PixelSpacing", "SliceThickness",
     "PhotometricInterpretation"}

\* The defaults of the table that are constants (the three identifiers are
\* generated).
Default(f) ==
    CASE f = "SOPClassUID" -> "1.2.840.10008.5.1.4.1.1.2"
      [] f = "Modality" -> "CT"
      [] f = "PatientName" -> "Anonymous"
      [] f = "PatientID" -> "12345"
      [] f = "ImagePositionPatient" -> "[0.0, 0.0, 0.0]"
      [] f = "ImageOrientationPatient" -> "[1.0, 0.0, 0.0, 0.0, 1.0, 0.0]"
      [] f = "PixelSpacing" -> "[1.0, 1.0]"
      [] f = "SliceThickness" -> "1.0"
      [] f = "PhotometricInterpretation" -> "MONOCHROME2"

\* generate_uid(): the n-th identifier handed out; never repeats.
generate_uid(n) == "uid." \o ToString(n)

\* dt.strftime("%Y%m%d") and dt.strftime("%H%M%S") of an instant t.
StrfDate(t) == "date." \o ToString(t \div TicksPerDay)
StrfTime(t) == "time." \o ToString(t % TicksPerDay)

\* The value an input record holds for an element it supplies.
Supplied(f) == "in." \o f

----------------------------------------------------------------------------
(* fix_single_dicom *)

\* getattr(ds, f, default), mutated: the default always wins.
GetattrOverwrites(d, f, default) == default

\* getattr(ds, f, default): the element's value when the element is present
\* (whatever it holds), the default otherwise.
Getattr(d, f, default) == IF f \in DOMAIN d THEN d[f] ELSE default

\* ds.f = v
SetAttr(d, f, v) == [g \in DOMAIN d \cup {f} |-> IF g = f THEN v ELSE d[g]]

\* Content date/time, mutated: stamped only when missing.
StampIfMissing(d, t) ==
    SetAttr(SetAttr(d, "ContentDate", Getattr(d, "ContentDate", StrfDate(t))),
            "ContentTime", Getattr(d, "ContentTime", StrfTime(t)))

\* Lines 49-51: content date and time are assigned unconditionally.
Stamp(d, t) ==
    SetAttr(SetAttr(d, "ContentDate", StrfDate(t)), "ContentTime", StrfTime(t))

\* Lines 33-46: one assignment per mandatory element, in source order.  The
\* three generate_uid() calls are evaluated as arguments, needed or not: they
\* are calls number n, n+1 and n+2.
EnsureMetadata(d, n) ==
    LET d1  == SetAttr(d,   "SOPClassUID", Getattr(d, "SOPClassUID", Default("SOPClassUID")))
        d2  == SetAttr(d1,  "SOPInstanceUID", Getattr(d1, "SOPInstanceUID", generate_uid(n)))
        d3  == SetAttr(d2,  "Modality", Getattr(d2, "Modality", Default("Modality")))
        d4  == SetAttr(d3,  "PatientName", Getattr(d3, "PatientName", Default("PatientName")))
        d5  == SetAttr(d4,  "PatientID", Getattr(d4, "PatientID", Default("PatientID")))
        d6  == SetAttr(d5,  "StudyInstanceUID", Getattr(d5, "StudyInstanceUID", generate_uid(n + 1)))
        d7  == SetAttr(d6,  "SeriesInstanceUID", Getattr(d6, "SeriesInstanceUID", generate_uid(n + 2)))
        d8  == SetAttr(d7,  "ImagePositionPatient",
                       Getattr(d7, "ImagePositionPatient", Default("ImagePositionPatient")))
        d9  == SetAttr(d8,  "ImageOrientationPatient",
                       Getattr(d8, "ImageOrientationPatient", Default("ImageOrientationPatient")))
        d10 == SetAttr(d9,  "PixelSpacing", Getattr(d9, "PixelSpacing", Default("PixelSpacing")))
        d11 == SetAttr(d10, "SliceThickness", Getattr(d10, "SliceThickness", Default("SliceThickness")))
        d12 == SetAttr(d11, "PhotometricInterpretation",
                       Getattr(d11, "PhotometricInterpretation", Default("PhotometricInterpretation")))
    IN  d12

\* Number of generate_uid() calls one fix_single_dicom makes.
UidsPerFix == 3

\* The dataset fix_single_dicom leaves behind, given the count n of identifiers
\* handed out so far and the instant t that datetime.now() returns.
FixSingleDicom(d, n, t) == Stamp(EnsureMetadata(d, n), t)

----------------------------------------------------------------------------
(* SpecFix: the normalizer applied to one input record, then to its own     *)
(* output.                                                                 *)

\* No batch request is being served.
BatchIdle ==
    /\ upload = "none"
    /\ archive = << >>
    /\ extracted = << >>
    /\ idx = 1
    /\ output_zip = << >>
    /\ total_files = 0
    /\ error_files = 0

\* No volume request is being served.
NiftiIdle ==
    /\ nifti = << >>
    /\ study_uid = ""
    /\ series_uid = ""
    /\ i = 0
    /\ zip_out = << >>

NullSets == {S \in SUBSET Mandatory : Cardinality(S) <= MaxNull}

\* The record in which the elements of `nulls` are present without a value,
\* those of `absent` are missing, and the rest are supplied.
InputRecord(absent, nulls) ==
    [f \in Mandatory \ absent |-> IF f \in nulls THEN Null ELSE Supplied(f)]

InitFix ==
    /\ pc = "fix"
    /\ clock = 0
    /\ uidNext = 0
    /\ \E nulls \in NullSets : \E absent \in SUBSET (Mandatory \ nulls) :
          r = InputRecord(absent, nulls)
    /\ prev = r
    /\ ds = r
    /\ applied = 0
    /\ dt = 0
    /\ BatchIdle
    /\ NiftiIdle
    /\ response = "none"
    /\ delivered = << >>

\* One call fix_single_dicom(ds); the clock has advanced to some instant
\* `now` since it was last read.  The normalizer is called on the input and
\* then once more on the record that call left: normalize(normalize(r)).
ApplyFix ==
    /\ pc = "fix"
    /\ applied < 2
    /\ \E now \in clock..MaxClock :
          /\ clock' = now
          /\ dt' = now
          /\ ds' = FixSingleDicom(ds, uidNext, now)
    /\ prev' = ds
    /\ uidNext' = uidNext + UidsPerFix
    /\ applied' = applied + 1
    /\ UNCHANGED <<pc, r, batchVars, niftiVars, response, delivered>>

NextFix == ApplyFix

SpecFix == InitFix /\ [][NextFix]_vars

----------------------------------------------------------------------------
(* fix_dicom_zip: the inputs *)

\* A file's pixel part: <<Rows, Columns, BitsAllocated, len(PixelData)>>, or
\* << >> when the file holds no image elements.
NoPixels == << >>

CompleteAttrs == [f \in Mandatory |-> Supplied(f)]
NoIdsAttrs == [f \in Mandatory \ UidFields |-> Supplied(f)]

\* What a file of the archive holds.  `read` is what pydicom.dcmread(path,
\* force=True) does with it ("ok", or the exception it raises), `attrs` and
\* `pixel` the dataset it returns, `save` whether ds.save_as succeeds on the
\* fixed dataset.  `raw` describes a raw pixel buffer: the <<rows, cols,
\* bitDepth, byte length>> it was produced with (<< >> for other files); the
\* endpoint receives no geometry for it, and dcmread with force=True either
\* raises or returns a dataset without the image elements.
\* InvalidDicomError is the exception the first handler names; with force=True
\* dcmread does not raise it for a missing header, and it is kept among the
\* exceptions a read may raise so that both handlers are covered.
DicomFile(attrs, pixel) ==
    [kind |-> "dicom", read |-> "ok", save |-> TRUE, attrs |-> attrs,
     pixel |-> pixel, raw |-> << >>]
BrokenFile(exc) ==
    [kind |-> "dicom", read |-> exc, save |-> TRUE, attrs |-> << >>,
     pixel |-> NoPixels, raw |-> << >>]
UnsavableFile ==
    [kind |-> "dicom", read |-> "ok", save |-> FALSE, attrs |-> NoIdsAttrs,
     pixel |-> <<2, 2, 8, 4>>, raw |-> << >>]
RawBuffer(geom, read) ==
    [kind |-> "raw", read |-> read, save |-> TRUE, attrs |-> << >>,
     pixel |-> NoPixels, raw |-> geom]
TextFile ==
    [kind |-> "text", read |-> "Exception", save |-> TRUE, attrs |-> << >>,
     pixel |-> NoPixels, raw |-> << >>]

Entry(ext, nested, content) == [ext |-> ext, nested |-> nested, content |-> content]

\* The archive entries the batches are built from.
ItemCatalog ==
    { Entry(".dcm", FALSE, DicomFile(CompleteAttrs, <<2, 2, 8, 4>>)),
      Entry(".DCM", FALSE, DicomFile(NoIdsAttrs, <<2, 1, 16, 4>>)),
      Entry(".dcm", FALSE, DicomFile(CompleteAttrs, <<2, 2, 8, 3>>)),
      Entry(".dcm", FALSE, BrokenFile("Exception")),
      Entry(".dcm", FALSE, BrokenFile("InvalidDicomError")),
      Entry(".dcm", FALSE, UnsavableFile),
      Entry(".raw", FALSE, RawBuffer(<<2, 2, 8, 4>>, "ok")),
      Entry(".bin", FALSE, RawBuffer(<<2, 2, 16, 4>>, "ok")),
      Entry(".RAW", FALSE, RawBuffer(<<2, 2, 16, 4>>, "Exception")),
      Entry(".txt", FALSE, TextFile),
      Entry("", FALSE, DicomFile(NoIdsAttrs, <<2, 2, 8, 4>>)),
      Entry(".dcm", TRUE, DicomFile(CompleteAttrs, <<2, 2, 8, 4>>)),
      Entry(".txt", TRUE, TextFile) }

Archives == UNION {[1..n -> ItemCatalog] : n \in 0..MaxItems}

\* A file name, as its stem and its extension.
Name(stem, ext) == [stem |-> stem, ext |-> ext]
NameStr(name) == name.stem \o name.ext

\* The name of the k-th entry of an archive (names within an archive differ).
ItemName(a, k) == Name("f" \o ToString(k), a[k].ext)

InputZip == Name("input", ".zip")
SubDir == Name("scans", "")

\* What lies at the top of tmpdir after extractall: the upload itself, the
\* files the archive holds at its top level, and the directory that holds the
\* nested ones.
TopLevel(a) ==
    {InputZip}
    \cup {ItemName(a, k) : k \in {j \in DOMAIN a : ~a[j].nested}}
    \cup {SubDir : k \in {j \in DOMAIN a : a[j].nested}}

\* os.listdir: the names of a directory, in arbitrary order.
ListDir(names) ==
    {s \in [1..Cardinality(names) -> names] :
        \A p, q \in DOMAIN s : p # q => s[p] # s[q]}

\* str.lower() on an extension.
Lower(ext) ==
    CASE ext = ".DCM" -> ".dcm"
      [] ext = ".RAW" -> ".raw"
      [] ext = ".BIN" -> ".bin"
      [] OTHER -> ext

\* Line 87: name.lower().endswith((".dcm", ".raw", ".bin"))
Accepted(name) == Lower(name.ext) \in {".dcm", ".raw", ".bin"}

\* The content of the file tmpdir/name, for a top-level file of the archive.
FileAt(a, name) ==
    a[CHOOSE k \in DOMAIN a : ~a[k].nested /\ ItemName(a, k) = name].content

\* output_zip.writestr(name, data)
ZipEntry(name, kind, data) == [name |-> name, kind |-> kind, data |-> data]

\* ds.save_as(buffer, write_like_original=False): the file's bytes, which
\* determine the dataset written.
SaveAs(attrs, pixel) == [preamble |-> "DICM", attrs |-> attrs, pixel |-> pixel]

----------------------------------------------------------------------------
(* fix_dicom_zip: the request *)

Uploads == {"ok", "BadZipFile", "OSError"}

FixIdle ==
    /\ r = << >>
    /\ prev = << >>
    /\ ds = << >>
    /\ applied = 0

Init ==
    /\ pc = "start"
    /\ clock = 0
    /\ uidNext = 0
    /\ dt = 0
    /\ FixIdle
    /\ NiftiIdle
    /\ upload \in Uploads
    /\ archive \in IF upload = "ok" THEN Archives ELSE {<< >>}
    /\ extracted = << >>
    /\ idx = 1
    /\ output_zip = << >>
    /\ total_files = 0
    /\ error_files = 0
    /\ response = "none"
    /\ delivered = << >>

\* Lines 65-78, mutated: an unreadable container is treated as an empty one.
ExtractSwallows ==
    /\ pc = "start"
    /\ extracted' \in ListDir(IF upload = "ok" THEN TopLevel(archive) ELSE {InputZip})
    /\ pc' = "loop"
    /\ UNCHANGED <<niftiVars, clock, uidNext, dt, fixVars, upload, archive, idx, output_zip,
                   total_files, error_files, response, delivered>>

\* Lines 65-78 and 128-134: the upload is read, written to tmpdir and
\* extracted.  zipfile.BadZipFile becomes HTTP 400, any other exception a
\* JSON 500; neither carries an archive.
Extract ==
    /\ pc = "start"
    /\ \/ /\ upload = "ok"
          /\ extracted' \in ListDir(TopLevel(archive))
          /\ pc' = "loop"
          /\ UNCHANGED response
       \/ /\ upload = "BadZipFile"
          /\ response' = "400"
          /\ pc' = "done"
          /\ UNCHANGED extracted
       \/ /\ upload = "OSError"
          /\ response' = "500"
          /\ pc' = "done"
          /\ UNCHANGED extracted
    /\ UNCHANGED <<niftiVars, clock, uidNext, dt, fixVars, upload, archive, idx, output_zip,
                   total_files, error_files, delivered>>

InLoop == pc = "loop" /\ idx <= Len(extracted)

\* Lines 87-89: a name without an accepted ending is skipped.
LoopSkip ==
    /\ InLoop
    /\ ~Accepted(extracted[idx])
    /\ idx' = idx + 1
    /\ UNCHANGED <<niftiVars, pc, clock, uidNext, dt, fixVars, upload, archive, extracted,
                   output_zip, total_files, error_files, response, delivered>>

\* Lines 91-103: the file is read, fixed, and written as fixed_<name>.
LoopFix ==
    /\ InLoop
    /\ Accepted(extracted[idx])
    /\ LET name == extracted[idx]
           file == FileAt(archive, name)
       IN  /\ file.read = "ok"
           /\ file.save
           /\ \E now \in clock..MaxClock :
                 /\ clock' = now
                 /\ dt' = now
                 /\ output_zip' =
                       Append(output_zip,
                              ZipEntry("fixed_" \o NameStr(name), "fixed",
                                       SaveAs(FixSingleDicom(file.attrs, uidNext, now),
                                              file.pixel)))
    /\ uidNext' = uidNext + UidsPerFix
    /\ total_files' = total_files + 1
    /\ idx' = idx + 1
    /\ UNCHANGED <<niftiVars, pc, fixVars, upload, archive, extracted, error_files, response,
                   delivered>>

\* The text the except handlers write (lines 107 and 113).
ErrorMessage(name, exc) ==
    IF exc = "InvalidDicomError"
    THEN NameStr(name) \o " is not a valid DICOM file (missing header)"
    ELSE "Error fixing " \o NameStr(name) \o ": " \o exc

\* Lines 105-115, mutated: the handler gives the batch up.
LoopErrorAborts ==
    /\ InLoop
    /\ Accepted(extracted[idx])
    /\ LET file == FileAt(archive, extracted[idx])
       IN  file.read # "ok" \/ ~file.save
    /\ total_files' = total_files + 1
    /\ error_files' = error_files + 1
    /\ response' = "500"
    /\ pc' = "done"
    /\ UNCHANGED <<niftiVars, clock, uidNext, dt, fixVars, upload, archive, extracted, idx,
                   output_zip, delivered>>

\* Lines 91-101 and 105-115: dcmread or fix_single_dicom raises; the handler
\* counts the failure and writes error_<name>.txt.  When it is save_as that
\* raises, fix_single_dicom has drawn its identifiers and read the clock.
LoopError ==
    /\ InLoop
    /\ Accepted(extracted[idx])
    /\ LET name == extracted[idx]
           file == FileAt(archive, name)
       IN  \/ /\ file.read # "ok"
              /\ output_zip' =
                    Append(output_zip,
                           ZipEntry("error_" \o NameStr(name) \o ".txt", "error",
                                    ErrorMessage(name, file.read)))
              /\ UNCHANGED <<clock, dt, uidNext>>
           \/ /\ file.read = "ok"
              /\ ~file.save
              /\ \E now \in clock..MaxClock : clock' = now /\ dt' = now
              /\ uidNext' = uidNext + UidsPerFix
              /\ output_zip' =
                    Append(output_zip,
                           ZipEntry("error_" \o NameStr(name) \o ".txt", "error",
                                    ErrorMessage(name, "Exception")))
    /\ total_files' = total_files + 1
    /\ error_files' = error_files + 1
    /\ idx' = idx + 1
    /\ UNCHANGED <<niftiVars, pc, fixVars, upload, archive, extracted, response, delivered>>

\* Lines 117-126: after the loop and the closing of the output archive, the
\* archive is handed to the caller in a streaming response.
Return ==
    /\ pc = "loop"
    /\ idx > Len(extracted)
    /\ response' = "200"
    /\ delivered' = output_zip
    /\ pc' = "done"
    /\ UNCHANGED <<niftiVars, clock, uidNext, dt, fixVars, batchVars>>

Next == Extract \/ LoopSkip \/ LoopFix \/ LoopError \/ Return

Spec == Init /\ [][Next]_vars

----------------------------------------------------------------------------
(* nifti_to_dicom_zip *)

\* What nib.load gives for the upload: an exception, or a voxel array of some
\* shape with the translation column of its affine.
Shapes3D == {<<rw, cl, sl>> : rw \in 1..MaxDim, cl \in 1..MaxDim, sl \in 0..MaxSlices}
Shapes == Shapes3D \cup {<<MaxDim, MaxDim>>, <<1, MaxDim, 1, 1>>}
Affines == {<<0, 0, 0>>, <<-1, 2, 5>>}

NiftiUploads ==
    [ext : {".nii", ".nii.gz", ".NII", ".dcm"}, load : {"ok"},
     shape : Shapes, affine : Affines]
    \cup [ext : {".nii.gz"}, load : {"Exception"}, shape : {<<1, 1, 1>>},
          affine : {<<0, 0, 0>>}]

\* Line 144: file.filename.lower().endswith((".nii", ".nii.gz"))
NiftiAccepted(ext) ==
    (IF ext = ".NII" THEN ".nii" ELSE IF ext = ".NII.GZ" THEN ".nii.gz" ELSE ext)
        \in {".nii", ".nii.gz"}

\* np.int16: the bytes of one voxel after line 159.
Int16Bytes == 2

\* f"{i:04d}.dcm"
SliceName(k) ==
    (IF k < 10 THEN "000" ELSE IF k < 100 THEN "00" ELSE IF k < 1000 THEN "0" ELSE "")
        \o ToString(k) \o ".dcm"

\* Lines 172-221, mutated: the instance number is the slice index.
SliceDatasetZeroBased(shape, affine, k, study, series, sop, t) ==
    [SOPClassUID |-> CTImageStorage, SOPInstanceUID |-> sop,
     MediaStorageSOPInstanceUID |-> sop,
     StudyInstanceUID |-> study, SeriesInstanceUID |-> series,
     Modality |-> "CT", PatientName |-> "Anonymous", PatientID |-> "NIFTI001",
     Rows |-> shape[1], Columns |-> shape[2], InstanceNumber |-> k,
     ImagePositionPatient |-> <<affine[1], affine[2], affine[3] + k>>,
     ImageOrientationPatient |-> <<1, 0, 0, 0, 1, 0>>,
     PixelSpacing |-> "[1.0, 1.0]", SliceThickness |-> "1.0",
     PixelDataLen |-> shape[1] * shape[2] * Int16Bytes,
     BitsAllocated |-> 16, BitsStored |-> 16, HighBit |-> 15,
     SamplesPerPixel |-> 1, PhotometricInterpretation |-> "MONOCHROME2",
     PixelRepresentation |-> 1,
     ContentDate |-> StrfDate(t), ContentTime |-> StrfTime(t)]

\* Lines 172-221: the dataset of slice k (0-indexed) of a volume.
SliceDataset(shape, affine, k, study, series, sop, t) ==
    [SOPClassUID |-> CTImageStorage, SOPInstanceUID |-> sop,
     MediaStorageSOPInstanceUID |-> sop,
     StudyInstanceUID |-> study, SeriesInstanceUID |-> series,
     Modality |-> "CT", PatientName |-> "Anonymous", PatientID |-> "NIFTI001",
     Rows |-> shape[1], Columns |-> shape[2], InstanceNumber |-> k + 1,
     ImagePositionPatient |-> <<affine[1], affine[2], affine[3] + k>>,
     ImageOrientationPatient |-> <<1, 0, 0, 0, 1, 0>>,
     PixelSpacing |-> "[1.0, 1.0]", SliceThickness |-> "1.0",
     PixelDataLen |-> shape[1] * shape[2] * Int16Bytes,
     BitsAllocated |-> 16, BitsStored |-> 16, HighBit |-> 15,
     SamplesPerPixel |-> 1, PhotometricInterpretation |-> "MONOCHROME2",
     PixelRepresentation |-> 1,
     ContentDate |-> StrfDate(t), ContentTime |-> StrfTime(t)]

InitNifti ==
    /\ pc = "start"
    /\ clock = 0
    /\ uidNext = 0
    /\ dt = 0
    /\ FixIdle
    /\ BatchIdle
    /\ nifti \in NiftiUploads
    /\ study_uid = ""
    /\ series_uid = ""
    /\ i = 0
    /\ zip_out = << >>
    /\ response = "none"
    /\ delivered = << >>

\* Lines 144-145: a file name with another ending is refused with HTTP 400.
NiftiReject ==
    /\ pc = "start"
    /\ ~NiftiAccepted(nifti.ext)
    /\ response' = "400"
    /\ pc' = "done"
    /\ UNCHANGED <<clock, uidNext, dt, fixVars, batchVars, niftiVars, delivered>>

\* Lines 147-167 and 237-240: the volume is loaded and cast, its shape is
\* unpacked into (rows, cols, slices) and the shared identifiers are drawn.
\* A failing load, or a shape that is not three numbers, ends in HTTP 500.
NiftiLoad ==
    /\ pc = "start"
    /\ NiftiAccepted(nifti.ext)
    /\ \/ /\ nifti.load = "ok"
          /\ Len(nifti.shape) = 3
          /\ study_uid' = generate_uid(uidNext)
          /\ series_uid' = generate_uid(uidNext + 1)
          /\ uidNext' = uidNext + 2
          /\ pc' = "slices"
          /\ UNCHANGED response
       \/ /\ nifti.load # "ok" \/ Len(nifti.shape) # 3
          /\ response' = "500"
          /\ pc' = "done"
          /\ UNCHANGED <<study_uid, series_uid, uidNext>>
    /\ UNCHANGED <<clock, dt, fixVars, batchVars, nifti, i, zip_out, delivered>>

\* Lines 171-226: one pass of `for i in range(slices)`.
NiftiSlice ==
    /\ pc = "slices"
    /\ i < nifti.shape[3]
    /\ \E now \in clock..MaxClock :
          /\ clock' = now
          /\ dt' = now
          /\ zip_out' =
                Append(zip_out,
                       ZipEntry(SliceName(i), "slice",
                                SliceDataset(nifti.shape, nifti.affine, i, study_uid,
                                             series_uid, generate_uid(uidNext), now)))
    /\ uidNext' = uidNext + 1
    /\ i' = i + 1
    /\ UNCHANGED <<pc, fixVars, batchVars, nifti, study_uid, series_uid, response,
                   delivered>>

\* Lines 228-235: the archive is handed to the caller after the loop.
NiftiReturn ==
    /\ pc = "slices"
    /\ i >= nifti.shape[3]
    /\ response' = "200"
    /\ delivered' = zip_out
    /\ pc' = "done"
    /\ UNCHANGED <<clock, uidNext, dt, fixVars, batchVars, niftiVars>>

NextNifti == NiftiReject \/ NiftiLoad \/ NiftiSlice \/ NiftiReturn

SpecNifti == InitNifti /\ [][NextNifti]_vars

----------------------------------------------------------------------------
(* Claims about the volume slicer (checked under SpecNifti) *)

\* C5: for a volume of shape (R, C, S) the slicer emits exactly S records in
\* increasing slice order; the record emitted i-th (0-indexed) is slice i and
\* has InstanceNumber i + 1, so the numbers run strictly increasing from 1 to
\* S; all records carry the study identifier and the series identifier drawn
\* once, before the loop, and no other identifier of the call equals them.
C5_SliceSeries ==
    /\ \A k \in DOMAIN zip_out :
          LET d == zip_out[k].data
          IN  /\ d.InstanceNumber = k
              /\ zip_out[k].name = SliceName(k - 1)
              /\ d.ImagePositionPatient[3] = nifti.affine[3] + (k - 1)
              /\ d.StudyInstanceUID = study_uid
              /\ d.SeriesInstanceUID = series_uid
              /\ d.SOPInstanceUID \notin {study_uid, series_uid}
              /\ k > 1 => zip_out[k - 1].data.InstanceNumber < d.InstanceNumber
    /\ pc = "slices" => Len(zip_out) = i /\ study_uid # series_uid
    /\ response = "200" =>
          /\ delivered = zip_out
          /\ Len(delivered) = nifti.shape[3]
          /\ uidNext = 2 + nifti.shape[3]

\* C5 witness: a volume of several slices has been converted and delivered.
C5_Witness ==
    /\ response = "200"
    /\ Len(delivered) = MaxSlices
    /\ nifti.shape[1] # nifti.shape[2]

\* C10, volume half: every record the slicer emits has a pixel payload of
\* rows * columns * (bits allocated / 8) bytes.
PixelLengthNifti ==
    \A k \in DOMAIN zip_out :
        LET d == zip_out[k].data
        IN  d.PixelDataLen = d.Rows * d.Columns * (d.BitsAllocated \div 8)

----------------------------------------------------------------------------
(* Claims about the batch endpoint (checked under Spec) *)

\* The entries of kind `kind` that an archive z holds under the name n.
Named(z, kind, n) == {e \in DOMAIN z : z[e].kind = kind /\ z[e].name = n}
FixedFor(z, name) == Named(z, "fixed", "fixed_" \o NameStr(name))
ErrorFor(z, name) == Named(z, "error", "error_" \o NameStr(name) \o ".txt")
OfKind(z, kind) == {e \in DOMAIN z : z[e].kind = kind}

\* An item on which reading or fixing fails.
Malformed(file) == file.read # "ok" \/ ~file.save

\* A raw pixel buffer whose byte length is not rows * cols * (bitDepth / 8).
WrongLength(file) ==
    /\ file.kind = "raw"
    /\ file.raw[4] # file.raw[1] * file.raw[2] * (file.raw[3] \div 8)

\* The listing positions the loop has attempted so far.
Attempted == {j \in 1..(idx - 1) : j <= Len(extracted) /\ Accepted(extracted[j])}

\* C2: for an archive holding n items with an accepted extension of which k
\* are malformed, plus items with other extensions, the output delivered
\* contains exactly n - k fixed records and k error descriptors, and no entry
\* of either kind for an item with another extension.
C2_BatchCounts ==
    (pc = "done" /\ response = "200") =>
        LET items == {k \in DOMAIN archive : Accepted(ItemName(archive, k))}
            bad == {k \in items : Malformed(archive[k].content)}
        IN  /\ Cardinality(OfKind(delivered, "fixed"))
                 = Cardinality(items) - Cardinality(bad)
            /\ Cardinality(OfKind(delivered, "error")) = Cardinality(bad)
            /\ \A k \in DOMAIN archive \ items :
                  /\ FixedFor(delivered, ItemName(archive, k)) = {}
                  /\ ErrorFor(delivered, ItemName(archive, k)) = {}

\* C3: in the loop a failing item never aborts the batch: every attempted item
\* has exactly one output entry, error_<name>.txt and no fixed record when
\* reading or fixing it failed, fixed_<name> and no error otherwise; the
\* request ends only with the whole listing iterated, in a 200 response.
C3_FailureIsolated ==
    /\ \A j \in Attempted :
          LET name == extracted[j]
              fx == Cardinality(FixedFor(output_zip, name))
              er == Cardinality(ErrorFor(output_zip, name))
          IN  /\ fx + er = 1
              /\ Malformed(FileAt(archive, name)) <=> er = 1
    /\ Len(output_zip) = Cardinality(Attempted)
    /\ (pc = "done" /\ upload = "ok") =>
          /\ response = "200"
          /\ idx = Len(extracted) + 1
          /\ delivered = output_zip

\* C3 witness: a batch ended in which an item that failed was followed in the
\* iteration by an item that was fixed.
C3_Witness ==
    /\ pc = "done"
    /\ response = "200"
    /\ \E p, q \in Attempted :
          /\ p < q
          /\ Malformed(FileAt(archive, extracted[p]))
          /\ FixedFor(delivered, extracted[q]) # {}

\* C4: a raw pixel buffer whose byte length differs from rows * cols *
\* (bitDepth / 8) is never normalized into a fixed record; in a batch it
\* yields an error descriptor instead.
C4_WrongLengthRejected ==
    \A j \in Attempted :
        WrongLength(FileAt(archive, extracted[j])) =>
            /\ FixedFor(output_zip, extracted[j]) = {}
            /\ ErrorFor(output_zip, extracted[j]) # {}

\* C8: when the container is unreadable as an archive the request ends in one
\* top-level failure (HTTP 400) with no fixed record and no error descriptor;
\* in every run the caller receives the batch result only once the loop has
\* iterated the whole listing, and then all of it.
C8_AllOrNothing ==
    /\ (pc = "done" /\ upload = "BadZipFile") =>
          response = "400" /\ delivered = << >> /\ output_zip = << >>
    /\ (pc = "done" /\ upload # "ok") => response \in {"400", "500"}
    /\ (response = "200" \/ delivered # << >>) =>
          /\ pc = "done"
          /\ upload = "ok"
          /\ idx > Len(extracted)
          /\ delivered = output_zip

\* C8 witness: the request for an unreadable container has been answered.
C8_Witness == pc = "done" /\ upload = "BadZipFile" /\ response = "400"

\* C9: any two fixed records of one batch whose inputs lacked a study
\* identifier carry the same study identifier, and likewise for the series
\* identifier.
C9_SharedStudyContext ==
    \A p, q \in Attempted :
        LET fi == FileAt(archive, extracted[p])
            fj == FileAt(archive, extracted[q])
        IN  \A f \in {"StudyInstanceUID", "SeriesInstanceUID"} :
               (/\ ~Malformed(fi) /\ ~Malformed(fj)
                /\ f \notin DOMAIN fi.attrs /\ f \notin DOMAIN fj.attrs) =>
                   \A a \in FixedFor(output_zip, extracted[p]) :
                   \A b \in FixedFor(output_zip, extracted[q]) :
                       output_zip[a].data.attrs[f] = output_zip[b].data.attrs[f]

\* C10: every record emitted as a success by the batch fixer that holds image
\* elements has a pixel-data payload of rows * columns * (bits allocated / 8)
\* bytes.
C10_PixelLengthBatch ==
    \A e \in OfKind(output_zip, "fixed") :
        LET px == output_zip[e].data.pixel
        IN  px # NoPixels => px[4] = px[1] * px[2] * (px[3] \div 8)

----------------------------------------------------------------------------
(* Claims about the normalizer (checked under SpecFix) *)

\* The identifiers generate_uid() has handed out so far.
Generated == {generate_uid(k) : k \in 0..(uidNext - 1)}

\* C1: for every input record r and every mandatory field f, once
\* fix_single_dicom has run the record holds r's value for f when r supplies
\* f (the element is present in r); when r does not supply f it holds the
\* table's default: the constant of the table, or, for the instance, study and
\* series identifiers, an identifier generated during the call, which is no
\* value of r and differs from the other generated identifiers.
C1_PresentKeptAbsentDefaulted ==
    applied >= 1 =>
        /\ \A f \in Mandatory :
              /\ f \in DOMAIN ds
              /\ f \in DOMAIN r => ds[f] = r[f]
              /\ (f \notin DOMAIN r /\ f \notin UidFields) => ds[f] = Default(f)
              /\ (f \notin DOMAIN r /\ f \in UidFields) =>
                    /\ ds[f] \in Generated
                    /\ \A g \in DOMAIN r : ds[f] # r[g]
        /\ \A f, g \in UidFields \ DOMAIN r : f # g => ds[f] # ds[g]

\* C1 witness: a record that supplied some mandatory fields and lacked others,
\* among them an identifier, has been normalized.
C1_Witness ==
    /\ applied = 1
    /\ "PatientName" \in DOMAIN r /\ r["PatientName"] = Supplied("PatientName")
    /\ "Modality" \notin DOMAIN r
    /\ "StudyInstanceUID" \notin DOMAIN r
    /\ "SeriesInstanceUID" \in DOMAIN r

\* C6: after fix_single_dicom every mandatory field is present and non-null,
\* for every input record, also one in which a mandatory field is present but
\* holds a null/empty value.
C6_AllMandatoryNonNull ==
    applied >= 1 => \A f \in Mandatory : f \in DOMAIN ds /\ ds[f] # Null

====
